---- MODULE Spec2Model ----
(***************************************************************************)
(* A model of add_frontmatter.py: get_files walks a directory tree and     *)
(* returns the paths of the ".md" files, add_frontmatter prepends a        *)
(* frontmatter block to one file, main runs add_frontmatter over the       *)
(* list.                                                                   *)
(*                                                                         *)
(* Text is modelled character by character: a string is a sequence of      *)
(* one-character strings, and a file is the sequence of its bytes (the     *)
(* alphabet is ASCII, one byte per character).  Files are opened in text   *)
(* mode with the default newline handling on a POSIX host: reading turns   *)
(* "\r\n" and "\r" into "\n", writing leaves "\n" as it is.                *)
(***************************************************************************)
EXTENDS Integers, Sequences, FiniteSets, TLC

\* ------------------------------------------------------------- bounds

\* How many times the script is invoked on the same tree.
MaxRuns == 2

\* Number of "\r\n"-terminated lines of the long document of the input set.
CrlfLines == 72

\* ------------------------------------------------------------- strings

\* The characters of a string literal, one element each.
Chars(s) == [k \in 1..Len(s) |-> SubSeq(s, k, k)]

\* The characters str.strip() and int() treat as whitespace.
Whitespace == {" ", "\t", "\n", "\r", "\f"}

\* The characters str.splitlines() treats as line boundaries.
LineBreaks == {"\n", "\r", "\f"}

Digits == <<"0", "1", "2", "3", "4", "5", "6", "7", "8", "9">>

\* s.startswith(p)
startswith(s, p) == Len(s) >= Len(p) /\ SubSeq(s, 1, Len(p)) = p

\* s.endswith(p)
endswith(s, p) == Len(s) >= Len(p) /\ SubSeq(s, Len(s) - Len(p) + 1, Len(s)) = p

\* s.strip()
strip(s) ==
    LET keep == {k \in 1..Len(s) : s[k] \notin Whitespace}
    IN  IF keep = {} THEN <<>>
        ELSE SubSeq(s, CHOOSE a \in keep : \A b \in keep : a <= b,
                       CHOOSE a \in keep : \A b \in keep : a >= b)

\* The positions of a sequence, in order.
Positions(s) == [k \in 1..Len(s) |-> k]

\* s.split(sep) for a one-character separator: the pieces between the
\* separators, empty pieces kept; always at least one piece.
split(s, sep) ==
    LET isCut(k) == s[k] = sep
        cuts == SelectSeq(Positions(s), isCut)
        n == Len(cuts)
        from(j) == IF j = 1 THEN 1 ELSE cuts[j - 1] + 1
        to(j) == IF j = n + 1 THEN Len(s) ELSE cuts[j] - 1
    IN  [j \in 1..(n + 1) |-> SubSeq(s, from(j), to(j))]

\* s.splitlines(): "\r\n" is one boundary; no empty last line after a final
\* boundary.
splitlines(s) ==
    LET isEnd(k) == /\ s[k] \in LineBreaks
                    /\ ~(s[k] = "\r" /\ k < Len(s) /\ s[k + 1] = "\n")
        ends == SelectSeq(Positions(s), isEnd)
        n == Len(ends)
        from(j) == IF j = 1 THEN 1 ELSE ends[j - 1] + 1
        to(j) == IF ends[j] > 1 /\ s[ends[j] - 1] = "\r" /\ s[ends[j]] = "\n"
                 THEN ends[j] - 2 ELSE ends[j] - 1
        whole == [j \in 1..n |-> SubSeq(s, from(j), to(j))]
    IN  IF n = 0 THEN (IF s = <<>> THEN <<>> ELSE <<s>>)
        ELSE IF ends[n] < Len(s)
        THEN Append(whole, SubSeq(s, ends[n] + 1, Len(s)))
        ELSE whole

DigitValue(c) == (CHOOSE k \in 1..10 : Digits[k] = c) - 1

IsDigit(c) == \E k \in 1..10 : Digits[k] = c

RECURSIVE DigitsValue(_)
DigitsValue(s) ==
    IF s = <<>> THEN 0
    ELSE LET c == s[Len(s)]
             rest == DigitsValue(SubSeq(s, 1, Len(s) - 1))
         IN  IF c = "_" THEN rest ELSE 10 * rest + DigitValue(c)

\* int(s): surrounding whitespace is dropped, then an optional sign, then
\* digits, single underscores allowed between digits.  [ok, value].
int(s) ==
    LET t == strip(s)
        signed == t # <<>> /\ t[1] \in {"+", "-"}
        d == IF signed THEN Tail(t) ELSE t
        wellFormed ==
            /\ d # <<>>
            /\ IsDigit(d[1]) /\ IsDigit(d[Len(d)])
            /\ \A k \in 1..Len(d) : IsDigit(d[k]) \/ d[k] = "_"
            /\ \A k \in 1..(Len(d) - 1) : ~(d[k] = "_" /\ d[k + 1] = "_")
    IN  IF wellFormed
        THEN [ok |-> TRUE,
              value |-> IF signed /\ t[1] = "-" THEN 0 - DigitsValue(d)
                        ELSE DigitsValue(d)]
        ELSE [ok |-> FALSE, value |-> 0]

RECURSIVE NatStr(_)
NatStr(n) == IF n < 10 THEN <<Digits[n + 1]>>
             ELSE NatStr(n \div 10) \o <<Digits[(n % 10) + 1]>>

\* str(n) of an integer, as an f-string formats it.
str(n) == IF n < 0 THEN <<"-">> \o NatStr(0 - n) ELSE NatStr(n)

\* ------------------------------------------------------------- file I/O

\* Whether a byte survives the reader's newline translation: the "\n" of a
\* "\r\n" pair does not.
Kept(b) == ~b.lf_of_crlf

\* f.read() of a file opened in text mode (newline=None): "\r\n" and a lone
\* "\r" both arrive as "\n".
read(bytes) ==
    LET tagged == [k \in 1..Len(bytes) |->
                     [c |-> IF bytes[k] = "\r" THEN "\n" ELSE bytes[k],
                      lf_of_crlf |-> k > 1 /\ bytes[k] = "\n" /\ bytes[k - 1] = "\r"]]
        kept == SelectSeq(tagged, Kept)
    IN  [k \in 1..Len(kept) |-> kept[k].c]

\* f.seek(0); f.write(data) on a file opened "r+", then close: data replaces
\* the bytes from offset 0 and the file is not truncated.
seek0_write(bytes, data) == data \o SubSeq(bytes, Len(data) + 1, Len(bytes))

\* os.path.join(root, file)
join(root, file) == root \o <<"/">> \o file

\* os.path.basename(path)
basename(path) ==
    LET seps == {k \in 1..Len(path) : path[k] = "/"}
    IN  IF seps = {} THEN path
        ELSE SubSeq(path, (CHOOSE a \in seps : \A b \in seps : a >= b) + 1,
                    Len(path))

\* ------------------------------------------------------------- get_files

\* get_files without its filter.
IsDocument_unfiltered(file) == TRUE

\* The filter of get_files: file.endswith(".md").
IsDocument(file) == endswith(file, Chars(".md"))

\* All orders in which os.walk may list the files of one directory.
Listings(names) ==
    {o \in [1..Cardinality(names) -> names] :
        \A a, b \in 1..Cardinality(names) : a # b => o[a] # o[b]}

RECURSIVE SelectDocuments(_, _)
SelectDocuments(root, listing) ==
    IF listing = <<>> THEN <<>>
    ELSE (IF IsDocument(Head(listing)) THEN <<join(root, Head(listing))>>
          ELSE <<>>) \o SelectDocuments(root, Tail(listing))

\* get_files over a walk (top-down: a directory before its subdirectories),
\* given the listing of each directory.
RECURSIVE get_files(_, _)
get_files(walk, listings) ==
    IF walk = <<>> THEN <<>>
    ELSE SelectDocuments(Head(walk).root, Head(listings))
         \o get_files(Tail(walk), Tail(listings))

\* ------------------------------------------------------------- add_frontmatter

Marker == Chars("# Chapter")

IndexName == Chars("index.md")

\* The role decided by a suffix of the name instead of the whole name.
IsIndex_suffix(file_name) == endswith(file_name, IndexName)

\* file_name == "index.md"
IsIndex(file_name) == file_name = IndexName

index_frontmatter(dn, no) ==
    Chars("\n---\nlayout: default\ntitle: \"") \o dn
    \o Chars("\"\nnav_order: ") \o str(no)
    \o Chars("\nhas_children: true\n---\n")

chapter_frontmatter(title, dn, no) ==
    Chars("\n---\nlayout: default\ntitle: \"") \o title
    \o Chars("\"\nparent: \"") \o dn
    \o Chars("\"\nnav_order: ") \o str(no)
    \o Chars("\n---\n")

\* Lines 39-40 for a line that starts with "# Chapter", given its pieces
\* line.split(":"): a line without ":" raises IndexError, a last token
\* before the ":" that is no integer raises ValueError.
parse_pieces(parts, n, no) ==
    IF Len(parts) < 2
    THEN [error |-> "IndexError", title |-> <<>>, nav_order |-> no]
    ELSE IF ~n.ok
    THEN [error |-> "ValueError", title |-> <<>>, nav_order |-> no]
    ELSE [error |-> "none", title |-> strip(parts[2]), nav_order |-> n.value]

\* int(line.split(":")[0].split(" ")[-1])
last_token_int(tokens) == int(tokens[Len(tokens)])

parse_line(line, no) ==
    parse_pieces(split(line, ":"), last_token_int(split(split(line, ":")[1], " ")), no)

\* The lines that start with "# Chapter", by position.
marker_lines(lines) == {k \in 1..Len(lines) : startswith(lines[k], Marker)}

\* The loop over content.splitlines() of the chapter branch: title and
\* nav_order from the first line that starts with "# Chapter".  title is
\* bound only inside the loop, so without such a line building the
\* frontmatter raises UnboundLocalError.
first_marker(lines, hits, no) ==
    IF hits = {}
    THEN [error |-> "UnboundLocalError", title |-> <<>>, nav_order |-> no]
    ELSE parse_line(lines[CHOOSE a \in hits : \A b \in hits : a <= b], no)

\* The loop with title bound before it: a chapter without a "# Chapter" line
\* falls through with an empty title and the nav_order argument.
parse_marker_fallthrough(content, no) ==
    IF marker_lines(splitlines(content)) = {}
    THEN [error |-> "none", title |-> <<>>, nav_order |-> no]
    ELSE first_marker(splitlines(content), marker_lines(splitlines(content)), no)

parse_marker(content, no) ==
    first_marker(splitlines(content), marker_lines(splitlines(content)), no)

\* Lines 18-41: title and nav_order by the role of the file.
derive_metadata(file_name, content, dn, no) ==
    IF IsIndex(file_name)
    THEN [error |-> "none", title |-> dn, nav_order |-> no]
    ELSE parse_marker(content, no)

\* Lines 24-31 and 43-50: the f-string of the role.
build_frontmatter(file_name, meta, dn) ==
    IF IsIndex(file_name) THEN index_frontmatter(dn, meta.nav_order)
    ELSE chapter_frontmatter(meta.title, dn, meta.nav_order)

\* The check without the strip().
has_frontmatter_unstripped(content) == startswith(content, Chars("---"))

\* content.strip().startswith("---")
has_frontmatter(content) == startswith(strip(content), Chars("---"))

\* Lines 52-59: the file is written unless it already has frontmatter.
check_and_write(disk, file_path, content, frontmatter) ==
    IF has_frontmatter(content)
    THEN [outcome |-> "skipped", disk |-> disk]
    ELSE [outcome |-> "wrote",
          disk |-> [disk EXCEPT ![file_path] =
                      seek0_write(@, frontmatter \o <<"\n">> \o content)]]

\* What the call did, the metadata it derived, the filesystem it leaves.
call_result(meta, done) ==
    [outcome |-> done.outcome, error |-> meta.error, title |-> meta.title,
     nav_order |-> meta.nav_order, disk |-> done.disk]

\* An exception while deriving the metadata leaves before line 52.
with_metadata(disk, file_path, content, meta, dn) ==
    IF meta.error # "none"
    THEN call_result(meta, [outcome |-> "raised", disk |-> disk])
    ELSE call_result(meta,
             check_and_write(disk, file_path, content,
                             build_frontmatter(basename(file_path), meta, dn)))

with_content(disk, file_path, content, dn, no) ==
    with_metadata(disk, file_path, content,
                  derive_metadata(basename(file_path), content, dn, no), dn)

\* add_frontmatter(file_path, doc_name, nav_order) on the filesystem disk.
\* The chapter branch reads the file at line 35 and again at line 53;
\* nothing runs in between, so both reads see the same content.
add_frontmatter(disk, file_path, dn, no) ==
    with_content(disk, file_path, read(disk[file_path]), dn, no)

\* main, lines 73-74, run to its end over the list files: the filesystem it
\* leaves.  An exception of add_frontmatter ends the loop.
RECURSIVE main_loop(_, _, _, _)
main_loop(disk, order, dn, no) ==
    IF order = <<>> THEN disk
    ELSE IF add_frontmatter(disk, Head(order), dn, no).outcome = "raised"
    THEN disk
    ELSE main_loop(add_frontmatter(disk, Head(order), dn, no).disk,
                   Tail(order), dn, no)

\* ------------------------------------------------------------- inputs

Root == Chars("docs")

Sub == Chars("docs/sub")

\* The tree os.walk visits: each directory with the names of its files.
Tree ==
    << [root |-> Root,
        files |-> {IndexName, Chars("ch1.md"), Chars("notes.txt")}],
       [root |-> Sub,
        files |-> {Chars("xindex.md"), Chars("index.md.bak")}] >>

IndexPath == join(Root, IndexName)

Ch1Path == join(Root, Chars("ch1.md"))

Ch2Path == join(Sub, Chars("xindex.md"))

NotesPath == join(Root, Chars("notes.txt"))

BackupPath == join(Sub, Chars("index.md.bak"))

Paths == {IndexPath, Ch1Path, Ch2Path, NotesPath, BackupPath}

LongCrlf == [k \in 1..(2 * CrlfLines) |-> IF k % 2 = 1 THEN "\r" ELSE "\n"]

IndexContents ==
    { Chars(""),
      Chars("hello\n"),
      Chars("---\nold\n---\nhello"),
      Chars(" \n---\nx"),
      Chars("# Chapter 3: T\n"),
      Chars("a\r\nb"),
      LongCrlf }

Ch2Contents ==
    { Chars("# Chapter 3: Go on\nbody\n"),
      Chars("text\n"),
      Chars("---\nold\n---\ntext\n"),
      Chars("---\nold\n---\n# Chapter 3: T\n"),
      Chars("# Chapter 3") }

Ch1Contents ==
    Ch2Contents \cup
    { Chars(""),
      Chars("# Chapter 3 : T\n"),
      Chars("# Chapter 3:  T \n"),
      Chars("# Chapter3: T"),
      Chars("# Chapter  3: T"),
      Chars("# Chapter x: T"),
      Chars("# Chapter 03: A: B"),
      Chars("x\n# Chapter 3: A\n# Chapter 4: B\n"),
      Chars("# Chapter 3: A\r\nb\r\n"),
      Chars(" # Chapter 3: T"),
      Chars("# Chapter -3:T"),
      Chars("# Chapter 12: T"),
      Chars("\n---\nx\n# Chapter 7") }

DocNames == {Chars("G"), Chars("Hb")}

NavOrders == {5, 12}

\* ------------------------------------------------------------- state

VARIABLES
    fs,         \* the files of the tree: path -> bytes
    doc_name,   \* --doc-name
    nav_order,  \* --nav-order
    pc,         \* where main is: "start", "loop", "done", "crashed"
    files,      \* main's list, as get_files returned it
    i,          \* position of main's loop in files
    runs,       \* invocations of the script so far, this one included
    orig,       \* the files before the first invocation
    calls,      \* path -> calls of add_frontmatter on it so far
    last        \* the most recent call of add_frontmatter

vars == <<fs, doc_name, nav_order, pc, files, i, runs, orig, calls, last>>

NoCall ==
    [path |-> <<>>, nth |-> 0, before |-> <<>>, outcome |-> "none",
     error |-> "none", title |-> <<>>, nav_order |-> 0]

Init ==
    /\ \E ic \in IndexContents, c1 \in Ch1Contents, c2 \in Ch2Contents :
         fs = [p \in Paths |->
                 IF p = IndexPath THEN ic
                 ELSE IF p = Ch1Path THEN c1
                 ELSE IF p = Ch2Path THEN c2
                 ELSE IF p = NotesPath THEN Chars("# Chapter 9: N\n")
                 ELSE Chars("old")]
    /\ doc_name \in DocNames
    /\ nav_order \in NavOrders
    /\ pc = "start"
    /\ files = <<>>
    /\ i = 1
    /\ runs = 1
    /\ orig = fs
    /\ calls = [p \in Paths |-> 0]
    /\ last = NoCall

\* The orders get_files can return for the tree.
WalkOrders ==
    {get_files(Tree, <<l1, l2>>) :
        l1 \in Listings(Tree[1].files), l2 \in Listings(Tree[2].files)}

\* main, line 72: files = get_files(doc_path)
MainGetFiles ==
    /\ pc = "start"
    /\ files' \in WalkOrders
    /\ i' = 1
    /\ pc' = "loop"
    /\ UNCHANGED <<fs, doc_name, nav_order, runs, orig, calls, last>>

\* The bookkeeping of one call: the filesystem it leaves, and what it did.
\* An exception of add_frontmatter is caught nowhere and ends the script.
AfterCall(file, r) ==
    /\ fs' = r.disk
    /\ calls' = [calls EXCEPT ![file] = @ + 1]
    /\ last' = [path |-> file, nth |-> calls[file] + 1,
                before |-> fs[file], outcome |-> r.outcome,
                error |-> r.error, title |-> r.title,
                nav_order |-> r.nav_order]
    /\ IF r.outcome = "raised"
       THEN pc' = "crashed" /\ i' = i
       ELSE pc' = "loop" /\ i' = i + 1

\* main, lines 73-74: one iteration of the loop.
MainAddFrontmatter ==
    /\ pc = "loop"
    /\ i <= Len(files)
    /\ AfterCall(files[i], add_frontmatter(fs, files[i], doc_name, nav_order))
    /\ UNCHANGED <<doc_name, nav_order, files, runs, orig>>

\* main returns once the list is exhausted.
MainReturn ==
    /\ pc = "loop"
    /\ i > Len(files)
    /\ pc' = "done"
    /\ UNCHANGED <<fs, doc_name, nav_order, files, i, runs, orig, calls, last>>

\* The script is invoked again with the same arguments on the same tree.
Reinvoke ==
    /\ pc \in {"done", "crashed"}
    /\ runs < MaxRuns
    /\ runs' = runs + 1
    /\ pc' = "start"
    /\ files' = <<>>
    /\ i' = 1
    /\ UNCHANGED <<fs, doc_name, nav_order, orig, calls, last>>

Next == MainGetFiles \/ MainAddFrontmatter \/ MainReturn \/ Reinvoke

Spec == Init /\ [][Next]_vars

TypeOK ==
    /\ pc \in {"start", "loop", "done", "crashed"}
    /\ runs \in 1..MaxRuns
    /\ DOMAIN fs = Paths
    /\ last.outcome \in {"none", "wrote", "skipped", "raised"}

\* ------------------------------------------------------------- properties

\* The most recent call of add_frontmatter was on a chapter document.
LastOnChapter == last.outcome # "none" /\ basename(last.path) # IndexName

\* The most recent call of add_frontmatter was on an index document.
LastOnIndex == last.outcome # "none" /\ basename(last.path) = IndexName

\* The positions of the "---" lines of a file.
DashLines(lines) == {k \in 1..Len(lines) : lines[k] = Chars("---")}

\* The lines between the first two "---" lines of a file: the fields of its
\* header.
FieldsBetween(lines, dashes) ==
    IF Cardinality(dashes) < 2 THEN {}
    ELSE LET open == CHOOSE a \in dashes : \A b \in dashes : a <= b
             close == CHOOSE a \in dashes \ {open} :
                          \A b \in dashes \ {open} : a <= b
         IN  {lines[k] : k \in (open + 1)..(close - 1)}

HeaderFields(bytes) ==
    FieldsBetween(splitlines(bytes), DashLines(splitlines(bytes)))

HasField(fields, key) == \E f \in fields : startswith(f, key)

\* C1: idempotence.  A call of add_frontmatter on a file it was already
\* called on (same doc_name, same nav_order) performs no write: the file
\* keeps the content the earlier call left.
C1_Idempotent ==
    last.nth >= 2 => last.outcome # "wrote" /\ fs[last.path] = last.before

\* The first call wrote the header, the second call found it and skipped.
C1_Witness ==
    /\ last.nth = 2
    /\ last.outcome = "skipped"
    /\ fs[last.path] # orig[last.path]

\* C2: a document whose content, stripped, begins with "---" is a no-op,
\* whatever its role and its lines: the call reports that frontmatter
\* exists, leaves the file as it was, and main goes on.
C2_FrontmatterIsNoOp ==
    (last.outcome # "none" /\ startswith(strip(read(last.before)), Chars("---")))
        => /\ last.outcome = "skipped"
           /\ fs[last.path] = last.before
           /\ pc # "crashed"

\* The text after "# Chapter" has the form: whitespace, digits, whitespace,
\* ":", title.
ClaimedForm(rest) ==
    /\ Len(split(rest, ":")) = 2
    /\ strip(split(rest, ":")[1]) # <<>>
    /\ \A k \in 1..Len(strip(split(rest, ":")[1])) :
           IsDigit(strip(split(rest, ":")[1])[k])

ClaimedNavOrder(rest) == DigitsValue(strip(split(rest, ":")[1]))

ClaimedTitle(rest) == strip(split(rest, ":")[2])

\* The first line of a text that starts with "# Chapter", without that
\* prefix; <<"?">> when there is none.
DropMarker(line) == SubSeq(line, Len(Marker) + 1, Len(line))

AfterMarker(lines, hits) ==
    IF hits = {} THEN <<"?">>
    ELSE DropMarker(lines[CHOOSE a \in hits : \A b \in hits : a <= b])

RestOfFirstMarker(content) ==
    AfterMarker(splitlines(content), marker_lines(splitlines(content)))

ChapterFields(rest, fields) ==
    /\ Chars("title: \"") \o ClaimedTitle(rest) \o <<"\"">> \in fields
    /\ Chars("nav_order: ") \o str(ClaimedNavOrder(rest)) \in fields

ExpectChapterHeader(rest) ==
    /\ last.outcome = "wrote"
    /\ ChapterFields(rest, HeaderFields(fs[last.path]))

\* C3: chapter extraction.  For a chapter without frontmatter whose first
\* "# Chapter" line is "# Chapter", N, ":", T with any whitespace (or none)
\* around N and T, the header written has nav_order N and title T trimmed.
C3_ChapterExtraction ==
    (/\ LastOnChapter
     /\ ~startswith(strip(read(last.before)), Chars("---"))
     /\ ClaimedForm(RestOfFirstMarker(read(last.before))))
        => ExpectChapterHeader(RestOfFirstMarker(read(last.before)))

\* The header blocks in their literal format: "---" is the first line.
LiteralIndexHeader ==
    Chars("---\nlayout: default\ntitle: \"") \o doc_name
    \o Chars("\"\nnav_order: ") \o str(nav_order)
    \o Chars("\nhas_children: true\n---\n")

LiteralChapterHeader ==
    Chars("---\nlayout: default\ntitle: \"") \o last.title
    \o Chars("\"\nparent: \"") \o doc_name
    \o Chars("\"\nnav_order: ") \o str(last.nav_order)
    \o Chars("\n---\n")

\* C4: written layout.  A written file is the literal header block of the
\* role, "---" being the very first line of the file, then one blank line,
\* then the content.
C4_WrittenLayout ==
    last.outcome = "wrote" =>
        startswith(fs[last.path],
                   (IF LastOnIndex THEN LiteralIndexHeader
                    ELSE LiteralChapterHeader) \o <<"\n">>)

\* C5: content preservation.  A written file is the inserted header, the
\* separating blank line and then exactly the bytes the file had before,
\* with nothing after them.
C5_ContentPreserved ==
    last.outcome = "wrote" =>
        fs[last.path] =
            build_frontmatter(basename(last.path),
                              [title |-> last.title, nav_order |-> last.nav_order],
                              doc_name)
            \o <<"\n">> \o last.before

IndexFraming(fields) ==
    /\ Chars("title: \"") \o doc_name \o <<"\"">> \in fields
    /\ Chars("nav_order: ") \o str(nav_order) \in fields
    /\ Chars("has_children: true") \in fields
    /\ ~HasField(fields, Chars("parent"))

ChapterFraming(fields) ==
    /\ Chars("parent: \"") \o doc_name \o <<"\"">> \in fields
    /\ ~HasField(fields, Chars("has_children"))

\* C6: role and index framing.  The header written to a file named exactly
\* "index.md" has title doc_name, the base nav_order, has_children: true and
\* no parent; the header written to any other document has parent doc_name
\* and no has_children.
C6_RoleFraming ==
    last.outcome = "wrote" =>
        IF basename(last.path) = Chars("index.md")
        THEN IndexFraming(HeaderFields(fs[last.path]))
        ELSE ChapterFraming(HeaderFields(fs[last.path]))

\* An index.md whose content has a "# Chapter" line was written.
C6_Witness ==
    /\ last.outcome = "wrote"
    /\ last.path = IndexPath
    /\ marker_lines(splitlines(read(last.before))) # {}

\* C7: non-document exclusion.  A file whose name does not end with ".md"
\* is never in main's list and keeps its content; get_files changes no file.
C7_NonDocumentsExcluded ==
    /\ [](\A p \in Paths :
            ~endswith(p, Chars(".md")) =>
                /\ fs[p] = orig[p]
                /\ \A k \in 1..Len(files) : files[k] # p)
    /\ [][pc = "start" => fs' = fs]_vars

\* A run over the tree ended having written a document, with notes.txt,
\* whose content has a well-formed "# Chapter" line, left as it was.
C7_Witness ==
    /\ pc = "done"
    /\ fs[Ch1Path] # orig[Ch1Path]
    /\ fs[NotesPath] = orig[NotesPath]
    /\ ClaimedForm(RestOfFirstMarker(read(fs[NotesPath])))

\* C8: per-document errors.  When a run ends, add_frontmatter has been
\* called in it on every document get_files returned.
C8_ErrorsArePerDocument ==
    pc \in {"done", "crashed"} =>
        \A k \in 1..Len(files) : calls[files[k]] >= runs

\* C9: order independence.  The files a first run leaves are the files it
\* would have left had get_files returned the documents in any other order.
C9_OrderIndependent ==
    (pc \in {"done", "crashed"} /\ runs = 1) =>
        \A o \in WalkOrders : fs = main_loop(orig, o, doc_name, nav_order)

\* The first "# Chapter" line is missing, has no ":", or has no integer as
\* the last space-separated token before the ":".
MarkerFails(rest) ==
    \/ rest = <<"?">>
    \/ Len(split(rest, ":")) < 2
    \/ ~int(split(Marker \o split(rest, ":")[1], " ")
              [Len(split(Marker \o split(rest, ":")[1], " "))]).ok

OwnMetadata(rest) ==
    /\ last.title = strip(split(rest, ":")[2])
    /\ last.nav_order =
           int(split(Marker \o split(rest, ":")[1], " ")
                 [Len(split(Marker \o split(rest, ":")[1], " "))]).value
    /\ startswith(fs[last.path],
                  chapter_frontmatter(last.title, doc_name, last.nav_order))

\* C10: no write on marker failure.  A call on a chapter whose first
\* "# Chapter" line is missing or malformed raises and leaves the file as it
\* was; a chapter is written only with the title and nav_order of its own
\* first "# Chapter" line.
C10_NoWriteOnMarkerFailure ==
    LastOnChapter =>
        /\ MarkerFails(RestOfFirstMarker(read(last.before)))
               => last.outcome = "raised" /\ fs[last.path] = last.before
        /\ last.outcome = "wrote"
               => /\ ~MarkerFails(RestOfFirstMarker(read(last.before)))
                  /\ OwnMetadata(RestOfFirstMarker(read(last.before)))

\* A chapter without any "# Chapter" line: the call raised, nothing written.
C10_Witness ==
    /\ LastOnChapter
    /\ RestOfFirstMarker(read(last.before)) = <<"?">>
    /\ last.outcome = "raised"
    /\ last.error = "UnboundLocalError"
    /\ fs[last.path] = last.before
====
